---- MODULE Spec2Model ----
(***************************************************************************)
(* The main loop of ra_lsp_server (crates/ra_lsp_server/src/main_loop.rs)  *)
(* as a state machine: the loop thread, the thread pool, the task channel, *)
(* the library channel, the vfs channel and the client on both ends.       *)
(* ServerWorldState, the vfs and the analysis host live in files that are  *)
(* not part of the sources at hand; they are modelled from the design      *)
(* document and marked so where they are defined.                          *)
(***************************************************************************)
EXTENDS Integers, Sequences, FiniteSets, Bags, TLC

(***************************************************************************)
(* Bounds of the model.                                                    *)
(***************************************************************************)
\* how many messages the client sends before it falls silent, when the
\* workspace has no library root
MaxInputs == 2
\* the same, when the workspace has a library root to index
MaxLibInputs == 1
\* the capacity of the channel that carries the loop's messages to the
\* client (128 in the test harness), scaled down
ChannelCap == 2

(***************************************************************************)
(* Program constants.                                                      *)
(***************************************************************************)
\* support.rs:62, the first request id the client issues
FirstReqId == 1
\* support.rs:176, the id of the shutdown request
ShutdownId == 666

\* paths the client names: files of the workspace root, a path outside  every
\* root, and a uri that is no file path at all
WorkspaceFiles == {"/main.rs"}
OutsidePath == "/elsewhere/x.rs"
InvalidUri == "untitled:1"
Uris == WorkspaceFiles \cup {OutsidePath, InvalidUri}

\* the roots the vfs scans: the workspace and one library
WorkspaceRoot == "workspace"
LibRoots == {"lib"}
Roots == {WorkspaceRoot} \cup LibRoots

NoText == 0
NoId == 0
NoFile == ""

\* the request kinds on_request registers, in registration order
Kinds ==
    << "SyntaxTree", "ExtendSelection", "FindMatchingBrace", "JoinLines",
       "OnEnter", "OnTypeFormatting", "DocumentSymbolRequest",
       "WorkspaceSymbol", "GotoDefinition", "ParentModule", "Runnables",
       "DecorationsRequest", "Completion", "CodeActionRequest",
       "FoldingRangeRequest", "SignatureHelpRequest", "HoverRequest",
       "PrepareRenameRequest", "Rename", "References" >>

\* the methods the model's client puts into a request
UnknownMethod == "Unknown"
ClientMethods == {"SyntaxTree", "References", UnknownMethod}

\* ErrorCode of gen_lsp_server, by name
Ok == "Ok"
MethodNotFound == "MethodNotFound"
RequestCancelled == "RequestCancelled"
InternalError == "InternalError"
LspErrorCode == "LspError"

VARIABLES
    internal_mode,        \* main_loop's parameter
    publish_decorations,  \* main_loop's parameter
    mainPc,               \* where the loop thread is
    main_res,             \* main_loop_inner's result once it returned
    res,                  \* the id on_request is about to insert
    state,                \* ServerWorldState
    pending_requests,     \* FxHashSet<u64>
    subs,                 \* Subscriptions
    pool,                 \* closures handed to the ThreadPool and not finished
    task_chan,            \* task_sender -> task_receiver
    lib_chan,             \* libdata_sender -> libdata_receiver
    vfs_chan,             \* roots the vfs has scanned and not yet reported
    out,                  \* everything sent on msg_sender, in order
    client,               \* the client: next request id, messages sent
    hist,                 \* history: what was received, accepted, discarded
    ret,                  \* main_loop's vfs_res and the value it returns
    path_map,             \* a PathMap
    file_map,             \* a FileMap
    call,                 \* the last call on a registry and what it returned
    tree,                 \* a File: the arenas nodes and errors
    builder,              \* the builder of the File
    iter                  \* a Children or SyntaxErrors iterator over the File

\* the syntax tree, which no step of the main loop or of a registry touches
treeVars == << tree, builder, iter >>

\* the file registries and the syntax tree, which no step of the main loop
\* touches
libVars == << path_map, file_map, call, treeVars >>

\* the main loop's variables, which no call on a registry touches
loopVars == << internal_mode, publish_decorations, mainPc, main_res, res,
              state, pending_requests, subs, pool, task_chan, lib_chan,
              vfs_chan, out, client, hist, ret >>

vars == << internal_mode, publish_decorations, mainPc, main_res, res, state,
           pending_requests, subs, pool, task_chan, lib_chan, vfs_chan, out,
           client, hist, ret, path_map, file_map, call, tree, builder, iter >>

(***************************************************************************)
(* The world: vfs, analysis host and snapshots.  server_world.rs, ra_vfs   *)
(* and the analysis host are not among the sources; this part follows the  *)
(* design document (World state, Snapshot, Cancellation token, Overlay).   *)
(***************************************************************************)
\* the text every workspace file has on disk when the server starts
DiskText(f) == 1

Content0 == [files |-> [f \in WorkspaceFiles |-> NoText], libs |-> {}]

\* ServerWorldState::new: nothing scanned, version 0, one live token.
\* revs and tokens hold the versions that the host or a snapshot refers to.
ServerWorldState_new(roots) ==
    [ roots_to_scan |-> Cardinality(roots),
      vfs |-> [ overlay |-> [f \in WorkspaceFiles |-> NoText],
                known |-> {},
                pending_changes |-> << >> ],
      host |-> [ version |-> 0,
                 revs |-> [v \in {0} |-> Content0],
                 tokens |-> [v \in {0} |-> FALSE] ] ]

Current(st) == st.host.revs[st.host.version]

Stage(st, change) ==
    [st EXCEPT !.vfs.pending_changes = Append(@, change)]

FileChange(st, f, text) ==
    [ kind |-> IF f \in st.vfs.known THEN "ChangeFile" ELSE "AddFile",
      root |-> WorkspaceRoot, files |-> {f}, text |-> text ]

\* Vfs::add_file_overlay: None for a path outside every root
add_file_overlay(st, path, text) ==
    IF path \notin WorkspaceFiles
    THEN [state |-> st, file |-> NoFile]
    ELSE [ state |-> Stage([st EXCEPT !.vfs.overlay[path] = text,
                                      !.vfs.known = @ \cup {path}],
                           FileChange(st, path, text)),
           file |-> path ]

\* Vfs::change_file_overlay: the file's text is replaced, and so is the text
\* of its overlay; an overlay is born on open only
change_file_overlay(st, path, text) ==
    IF path \notin WorkspaceFiles
    THEN st
    ELSE Stage([st EXCEPT !.vfs.overlay[path] =
                              IF @ # NoText THEN text ELSE NoText,
                          !.vfs.known = @ \cup {path}],
               FileChange(st, path, text))

\* Vfs::remove_file_overlay: the file falls back to its text on disk
remove_file_overlay(st, path) ==
    IF path \notin WorkspaceFiles
    THEN [state |-> st, file |-> NoFile]
    ELSE [ state |-> Stage([st EXCEPT !.vfs.overlay[path] = NoText,
                                      !.vfs.known = @ \cup {path}],
                           FileChange(st, path, DiskText(path))),
           file |-> path ]

\* Vfs::handle_task: the scan of one root has finished
handle_task(st, root) ==
    IF root = WorkspaceRoot
    THEN Stage([st EXCEPT !.vfs.known = WorkspaceFiles],
               [ kind |-> "AddRoot", root |-> root,
                 files |-> WorkspaceFiles \ st.vfs.known, text |-> NoText ])
    ELSE Stage(st, [ kind |-> "AddRoot", root |-> root,
                     files |-> {}, text |-> NoText ])

\* a mutation in place: the new version overwrites the ones snapshots hold
ApplyChangeInPlace(host, content) ==
    [ version |-> host.version + 1,
      revs |-> [v \in DOMAIN host.revs \cup {host.version + 1} |-> content],
      tokens |-> [v \in DOMAIN host.tokens \cup {host.version + 1} |->
                     v # host.version + 1] ]

\* AnalysisHost::apply_change, steps 3 to 5 of the design: a new version next
\* to the old ones, the tokens of all earlier versions flipped to canceled
ApplyChange(host, content) ==
    [ version |-> host.version + 1,
      revs |-> [v \in DOMAIN host.revs \cup {host.version + 1} |->
                   IF v = host.version + 1 THEN content ELSE host.revs[v]],
      tokens |-> [v \in DOMAIN host.tokens \cup {host.version + 1} |->
                     v # host.version + 1] ]

\* what one staged vfs change does to the analysis input
ChangeContent(content, c) ==
    IF c.kind = "AddRoot"
    THEN IF c.root = WorkspaceRoot
         THEN [content EXCEPT !.files =
                  [f \in WorkspaceFiles |->
                      IF f \in c.files THEN DiskText(f) ELSE @[f]]]
         ELSE content
    ELSE [content EXCEPT !.files =
             [f \in WorkspaceFiles |-> IF f \in c.files THEN c.text ELSE @[f]]]

RECURSIVE FoldChanges(_, _)
FoldChanges(content, changes) ==
    IF changes = << >> THEN content
    ELSE FoldChanges(ChangeContent(content, Head(changes)), Tail(changes))

LocalRootsIn(changes) ==
    Cardinality({i \in 1..Len(changes) :
        changes[i].kind = "AddRoot" /\ changes[i].root = WorkspaceRoot})

LibsIn(changes) ==
    {changes[i].root : i \in {j \in 1..Len(changes) :
        changes[j].kind = "AddRoot" /\ changes[j].root \in LibRoots}}

\* ServerWorldState::process_changes: commits what the vfs staged, applies
\* it to the analysis host and returns the library roots to index
process_changes(st) ==
    LET changes == st.vfs.pending_changes IN
    IF changes = << >>
    THEN [state |-> st, libs |-> {}]
    ELSE [ state |->
             [st EXCEPT !.vfs.pending_changes = << >>,
                        !.roots_to_scan = @ - LocalRootsIn(changes),
                        !.host = ApplyChange(@, FoldChanges(Current(st), changes))],
           libs |-> LibsIn(changes) ]

\* ServerWorldState::add_lib
add_lib(st, lib) ==
    [st EXCEPT !.roots_to_scan = @ - 1,
               !.host = ApplyChange(@, [Current(st) EXCEPT !.libs = @ \cup {lib}])]

\* ServerWorldState::snapshot: a handle on the current version
snapshot(st) == st.host.version

\* a read through a snapshot
SnapshotText(st, world, f) == st.host.revs[world].files[f]
SnapshotLibs(st, world) == st.host.revs[world].libs

\* the snapshot's cancel token
is_canceled(st, world) == st.host.tokens[world]

\* the versions still referred to: the host's own and those of the snapshots
\* that closures in the pool hold; a version no one refers to is freed
Referenced(st, closures) ==
    {st.host.version} \cup
        {t.world : t \in {c \in BagToSet(closures) :
                                c.kind \notin {"index", "sender"}}}

Collect(st, closures) ==
    [st EXCEPT !.host.revs = [v \in Referenced(st, closures) |-> @[v]],
               !.host.tokens = [v \in Referenced(st, closures) |-> @[v]]]

(***************************************************************************)
(* Messages, tasks and the closures handed to the pool.                    *)
(***************************************************************************)
\* RawResponse::ok / RawResponse::err; text is what the handler read
RawResponse(id, code, text) ==
    [ type |-> "Response", id |-> id, code |-> code, method |-> "",
      file |-> NoFile, text |-> text ]

\* RawNotification::new
RawNotification(method, file, text) ==
    [ type |-> "Notification", id |-> NoId, code |-> "", method |-> method,
      file |-> file, text |-> text ]

Respond(response) == [task |-> "Respond", msg |-> response]
Notify(n) == [task |-> "Notify", msg |-> n]

\* the closure PoolDispatcher::on hands to the pool
RequestTask(id, world, file) ==
    [ kind |-> "request", id |-> id, world |-> world, file |-> file,
      todo |-> {}, root |-> "" ]

\* the closure update_file_notifications_on_threadpool hands to the pool
DiagTask(world, subscriptions) ==
    [ kind |-> "diag", id |-> NoId, world |-> world, file |-> NoFile,
      todo |-> subscriptions, root |-> "" ]

\* the closure main_loop_inner hands to the pool for a library root
IndexTask(root) ==
    [ kind |-> "index", id |-> NoId, world |-> 0, file |-> NoFile,
      todo |-> {}, root |-> root ]

\* the closure of PoolDispatcher::on past its send: `world` was moved into
\* f(world, params) and died there, the clone of the task sender lives to
\* the closing brace
RequestClosureEnd(t) ==
    [ kind |-> "sender", id |-> NoId, world |-> 0, file |-> NoFile,
      todo |-> {}, root |-> "" ]

\* the captures dropped in the order opposite to the one of their first
\* use: the sender is gone and the snapshot is left
DiagClosureEnd_SenderFirst(t) ==
    [ kind |-> "world", id |-> NoId, world |-> t.world, file |-> NoFile,
      todo |-> {}, root |-> "" ]

\* the closure of update_file_notifications_on_threadpool past its for loop:
\* the captures are dropped in the order of their first use in the body,
\* `world` (line 430) before `sender` (line 439), so that the clone of the
\* task sender is what is left last
DiagClosureEnd(t) ==
    [ kind |-> "sender", id |-> NoId, world |-> 0, file |-> NoFile,
      todo |-> {}, root |-> "" ]

One(x) == SetToBag({x})

\* feedback that does not look at the mode
feedback_Always(intrnal_mode, msg, sender) ==
    Append(sender, RawNotification("internalFeedback", msg, NoText))

\* feedback: a notification in internal mode, nothing otherwise
feedback(intrnal_mode, msg, sender) ==
    IF ~intrnal_mode THEN sender
    ELSE Append(sender, RawNotification("internalFeedback", msg, NoText))

(***************************************************************************)
(* PoolDispatcher.                                                         *)
(***************************************************************************)
NoReq == [id |-> NoId, method |-> "", file |-> NoFile]

\* RawRequest::cast::<R>: the request is of kind R when the methods agree
cast(req, kind) == req.method = kind

\* the world PoolDispatcher::on moves into the closure: self.world.snapshot()
TaskWorld(st) == snapshot(st)

\* on, with the request not put back after a failed cast
PoolDispatcher_on_NoRestore(d, kind, st) ==
    IF d.req = NoReq THEN d
    ELSE IF cast(d.req, kind)
         THEN [ req |-> NoReq, res |-> d.req.id,
                spawned |-> d.spawned (+)
                    One(RequestTask(d.req.id, TaskWorld(st), d.req.file)) ]
         ELSE [d EXCEPT !.req = NoReq]

\* PoolDispatcher::on::<R>
PoolDispatcher_on(d, kind, st) ==
    IF d.req = NoReq THEN d
    ELSE IF cast(d.req, kind)
         THEN [ req |-> NoReq, res |-> d.req.id,
                spawned |-> d.spawned (+)
                    One(RequestTask(d.req.id, TaskWorld(st), d.req.file)) ]
         ELSE [d EXCEPT !.req = d.req]

\* PoolDispatcher::finish
PoolDispatcher_finish(d) ==
    CASE d.res # NoId /\ d.req = NoReq -> [tag |-> "Ok", id |-> d.res, req |-> NoReq]
      [] d.res = NoId /\ d.req # NoReq -> [tag |-> "Err", id |-> NoId, req |-> d.req]
      [] OTHER -> [tag |-> "unreachable", id |-> NoId, req |-> NoReq]

RECURSIVE OnKinds(_, _, _)
OnKinds(d, i, st) ==
    IF i > Len(Kinds) THEN d
    ELSE OnKinds(PoolDispatcher_on(d, Kinds[i], st), i + 1, st)

\* on_request up to finish(): the chain of .on::<R>() calls
Dispatch(req, st) ==
    OnKinds([req |-> req, res |-> NoId, spawned |-> EmptyBag], 1, st)

(***************************************************************************)
(* The file registries: PathMap (path_map.rs) and FileMap (mock.rs).       *)
(*                                                                         *)
(* A path is the sequence of its segments as written, "/" first when the   *)
(* path is absolute.  A FileId is the number it wraps.                     *)
(***************************************************************************)
\* how many files a registry is given
MaxFiles == 3

Root == {"Workspace", "Lib"}

\* the absolute paths handed to PathMap
Paths == { << "/", "foo" >>,
           << "/", "foo", "bar.rs" >>,
           << "/", "foo", ".", "bar.rs" >>,
           << "/", "foo", "..", "foo" >> }

\* the relative paths handed to FileMap::add
RelativePaths == { << "foo" >>, << "foo", "bar.rs" >>, << "bar.rs" >> }

\* the relative paths handed to FileMap::resolve
Rels == { << "bar.rs" >>, << ".", "bar.rs" >>, << "..", "bar.rs" >>,
          << "mod.rs" >> }

\* im::HashMap::default()
EmptyMap == [k \in {} |-> 0]

\* Path::components(): a "." that is not the first segment is left out.
\* PathBuf's Eq and Hash go by components, so this is the key under which a
\* HashMap<PathBuf, _> files a path.
components(path) ==
    IF path = << >> THEN << >>
    ELSE << Head(path) >> \o SelectSeq(Tail(path), LAMBDA c : c # ".")

\* #[derive(Default)]
PathMap_default ==
    [next_id |-> 0, path2id |-> EmptyMap, id2path |-> EmptyMap,
     id2root |-> EmptyMap]

new_file_id(m) ==
    [id |-> m.next_id, map |-> [m EXCEPT !.next_id = @ + 1]]

\* an insert that leaves the reverse map alone
insert_NoReverse(m, path, file_id, root) ==
    [m EXCEPT !.path2id = (components(path) :> file_id) @@ @,
              !.id2root = (file_id :> root) @@ @]

insert(m, path, file_id, root) ==
    [m EXCEPT !.path2id = (components(path) :> file_id) @@ @,
              !.id2path = (file_id :> path) @@ @,
              !.id2root = (file_id :> root) @@ @]

\* a get_or_insert that files the root it is given on every call
get_or_insert_UpdateRoot(m, path, root) ==
    IF components(path) \in DOMAIN m.path2id
    THEN LET file_id == m.path2id[components(path)]
         IN  [map |-> [m EXCEPT !.id2root = (file_id :> root) @@ @],
              inserted |-> FALSE, file_id |-> file_id]
    ELSE LET new == new_file_id(m)
         IN  [map |-> insert(new.map, path, new.id, root), inserted |-> TRUE,
              file_id |-> new.id]

get_or_insert(m, path, root) ==
    IF components(path) \in DOMAIN m.path2id
    THEN [map |-> m, inserted |-> FALSE,
          file_id |-> m.path2id[components(path)]]
    ELSE LET new == new_file_id(m)
         IN  [map |-> insert(new.map, path, new.id, root), inserted |-> TRUE,
              file_id |-> new.id]

\* Option<FileId>::None
None == -1

\* what a call that panics gives instead of a path
Panic == << "panic" >>

get_id(m, path) ==
    IF components(path) \in DOMAIN m.path2id
    THEN m.path2id[components(path)] ELSE None

get_path(m, file_id) ==
    IF file_id \in DOMAIN m.id2path THEN m.id2path[file_id] ELSE Panic

get_root(m, file_id) ==
    IF file_id \in DOMAIN m.id2root THEN m.id2root[file_id] ELSE "panic"

\* PathBuf::pop: the last component goes, the root and the empty path stay
PathBuf_pop(buf) ==
    IF buf = << >> \/ buf = << "/" >> THEN buf
    ELSE SubSeq(buf, 1, Len(buf) - 1)

RECURSIVE normalize_from(_, _)
normalize_from(buf, rest) ==
    IF rest = << >> THEN buf
    ELSE LET component == Head(rest)
         IN  normalize_from(
                 CASE component = "/"  -> Append(buf, component)
                   [] component = "."  -> buf
                   [] component = ".." -> PathBuf_pop(buf)
                   [] OTHER            -> Append(buf, component),
                 Tail(rest))

normalize(path) == normalize_from(<< >>, components(path))

\* FileMap: a Vec of (FileId, RelativePathBuf)
FileMap_default == << >>

FileMap_add(fm, path) ==
    LET file_id == Len(fm) + 1
    IN  [map |-> Append(fm, << file_id, path >>), file_id |-> file_id]

FileMap_files(fm) == { fm[i][1] : i \in 1..Len(fm) }

\* iter().find(..): the first of the entries that match, given by their places
FileMap_find(fm, hits) ==
    IF hits = {} THEN << >>
    ELSE fm[CHOOSE i \in hits : \A j \in hits : i <= j]

FileMap_path(fm, id) ==
    LET found == FileMap_find(fm, { i \in 1..Len(fm) : fm[i][1] = id })
    IN  IF found = << >> THEN Panic ELSE found[2]

\* RelativePath::join: rel's components after the path's own
RelativePath_join(path, rel) == path \o rel

\* RelativePath::normalize: "." is left out, ".." takes the component before
\* it away, and stays when there is none to take
RECURSIVE RelativePath_normalize_from(_, _)
RelativePath_normalize_from(stack, rest) ==
    IF rest = << >> THEN stack
    ELSE LET c == Head(rest)
         IN  RelativePath_normalize_from(
                 CASE c = "."  -> stack
                   [] c = ".." -> IF stack # << >> /\ stack[Len(stack)] # ".."
                                  THEN SubSeq(stack, 1, Len(stack) - 1)
                                  ELSE Append(stack, c)
                   [] OTHER    -> Append(stack, c),
                 Tail(rest))

RelativePath_normalize(path) == RelativePath_normalize_from(<< >>, path)

\* a resolve that looks for the joined path as it is
FileMap_resolve_NoNormalize(fm, id, rel) ==
    LET path == RelativePath_join(FileMap_path(fm, id), rel)
        found == FileMap_find(fm, { i \in 1..Len(fm) : fm[i][2] = path })
    IN  IF found = << >> THEN None ELSE found[1]

FileMap_resolve(fm, id, rel) ==
    LET path == RelativePath_normalize(
                    RelativePath_join(FileMap_path(fm, id), rel))
        found == FileMap_find(fm, { i \in 1..Len(fm) : fm[i][2] = path })
    IN  IF found = << >> THEN None ELSE found[1]

(***************************************************************************)
(* The syntax tree (src/tree/mod.rs): a File is two arenas, nodes and      *)
(* errors, and a node or an error is its index, counted from 0.  The       *)
(* builder (file_builder.rs) is not among the sources; it follows the      *)
(* specification: start node, finish node, add token, add error.           *)
(***************************************************************************)
\* how many nodes and how many errors a file is given
MaxNodes == 4
MaxErrors == 2

\* the lengths of the tokens handed to the builder
TokenLens == {1, 2}

\* Index<NodeIdx> for Vec<NodeData>, Index<ErrorIdx> for Vec<SyntaxErrorData>
Idx(arena, idx) == arena[idx + 1]

\* whether indexing the arena at idx is within its bounds
InBounds(arena, idx) == idx >= 0 /\ idx < Len(arena)

\* a File before the builder put anything into it
File_empty == [nodes |-> << >>, errors |-> << >>]

NodeData(kind, start, len) ==
    [kind |-> kind, range |-> << start, start + len >>, parent |-> None,
     first_child |-> None, next_sibling |-> None]

\* the arena with the entry at idx replaced
SetIdx(arena, idx, data) == [arena EXCEPT ![idx + 1] = data]

FileBuilder_new == [in_progress |-> << >>, pos |-> 0, sealed |-> FALSE]

\* the node being built, and the child it was given last
FileBuilder_top(b) == b.in_progress[Len(b.in_progress)]

\* the builder appends a node that has no parent
FileBuilder_new_node(f, data) == [f EXCEPT !.nodes = Append(@, data)]

\* the builder appends a node as the last child of the node being built
FileBuilder_push_child(f, b, data) ==
    LET id == Len(f.nodes)
        top == FileBuilder_top(b)
        parent == top[1]
        sibling == top[2]
        nodes1 == Append(f.nodes, [data EXCEPT !.parent = parent])
        nodes2 ==
            IF sibling = None
            THEN SetIdx(nodes1, parent,
                        [Idx(nodes1, parent) EXCEPT !.first_child = id])
            ELSE SetIdx(nodes1, sibling,
                        [Idx(nodes1, sibling) EXCEPT !.next_sibling = id])
    IN  [file |-> [f EXCEPT !.nodes = nodes2],
         builder |-> [b EXCEPT !.in_progress[Len(b.in_progress)] =
                                   << parent, id >>]]

\* the parent's range is stretched to the end of the child
FileBuilder_add_len(f, child) ==
    LET node == Idx(f.nodes, child)
        parent == Idx(f.nodes, node.parent)
    IN  [f EXCEPT !.nodes =
            SetIdx(@, node.parent,
                   [parent EXCEPT !.range = << parent.range[1], node.range[2] >>])]

\* File::root
File_root(f) == 0

Node_range(f, node) == Idx(f.nodes, node).range

Node_parent(f, node) == Idx(f.nodes, node).parent

\* Node::children: the iterator starts at first_child
Node_children(f, node) == Idx(f.nodes, node).first_child

\* an iterator that goes down from the node it gave out
Children_next_Descend(f, next) ==
    IF next = None THEN None ELSE Idx(f.nodes, next).first_child

\* Children::next: what the iterator holds after it gave out `next`
Children_next(f, next) ==
    IF next = None THEN None ELSE Idx(f.nodes, next).next_sibling

\* Node::SyntaxErrors: the iterator starts at the first error of the node
Node_SyntaxErrors(f, node) ==
    LET hits == { i \in 0 .. Len(f.errors) - 1 : Idx(f.errors, i).node = node }
    IN  IF hits = {} THEN None
        ELSE CHOOSE i \in hits : \A j \in hits : i <= j

\* SyntaxError::next: the error after idx when it belongs to the same node.
\* result.data() indexes the arena at idx + 1 and panics out of its bounds.
SyntaxError_next(f, idx) ==
    IF Len(f.errors) = idx
    THEN [panic |-> FALSE, next |-> None]
    ELSE IF ~InBounds(f.errors, idx + 1)
    THEN [panic |-> TRUE, next |-> None]
    ELSE IF Idx(f.errors, idx + 1).node # Idx(f.errors, idx).node
    THEN [panic |-> FALSE, next |-> None]
    ELSE [panic |-> FALSE, next |-> idx + 1]

\* no iterator yet
NoIter ==
    [kind |-> "none", node |-> None, next |-> None, yielded |-> << >>,
     status |-> "none"]

(***************************************************************************)
(* The loop thread.                                                        *)
(***************************************************************************)
Init ==
    /\ internal_mode \in BOOLEAN
    /\ publish_decorations \in BOOLEAN
    /\ mainPc = "select"
    /\ main_res = "none"
    /\ res = NoId
    /\ \E libs \in {{}, LibRoots} :
          /\ state = ServerWorldState_new({WorkspaceRoot} \cup libs)
          /\ vfs_chan = {WorkspaceRoot} \cup libs
          /\ client = [ req_id |-> FirstReqId, sent |-> 0, recv |-> 0,
                        limit |-> IF libs = {} THEN MaxInputs ELSE MaxLibInputs ]
    /\ pending_requests = {}
    /\ subs = {}
    /\ pool = EmptyBag
    /\ task_chan = << >>
    /\ lib_chan = << >>
    /\ out = << >>
    /\ hist = [requests |-> {}, cancelled |-> {}, discarded |-> {}]
    /\ ret = [vfs_res |-> "none", value |-> "none"]
    /\ path_map = PathMap_default
    /\ file_map = FileMap_default
    /\ call = [op |-> "none"]
    /\ tree = File_empty
    /\ builder = FileBuilder_new
    /\ iter = NoIter

\* a loop that takes the next event while on_request has not returned
SelectingEarly == mainPc \in {"select", "insert"}

\* the loop thread is blocked in select!
Selecting == mainPc = "select"

\* the client has a message left to send and the loop is there to take it
ClientMaySend == Selecting /\ client.sent < client.limit

Sent == [client EXCEPT !.sent = @ + 1]

\* the text of the next didOpen or didChange: no two edits carry the same
NewText == client.sent + 2

\* on_task that forwards a response whether or not its id is pending
on_task_Always(task, msg_sender, pending) ==
    [ out |-> Append(msg_sender, task.msg),
      pending |-> IF task.task = "Respond" THEN pending \ {task.msg.id} ELSE pending,
      discarded |-> {} ]

\* on_task that forwards the response of a pending id and keeps the id
on_task_KeepPending(task, msg_sender, pending) ==
    IF task.task = "Respond"
    THEN IF task.msg.id \in pending
         THEN [ out |-> Append(msg_sender, task.msg), pending |-> pending,
                discarded |-> {} ]
         ELSE [ out |-> msg_sender, pending |-> pending,
                discarded |-> {task.msg.id} ]
    ELSE [ out |-> Append(msg_sender, task.msg), pending |-> pending,
           discarded |-> {} ]

\* on_task
on_task(task, msg_sender, pending) ==
    IF task.task = "Respond"
    THEN IF task.msg.id \in pending
         THEN [ out |-> Append(msg_sender, task.msg),
                pending |-> pending \ {task.msg.id}, discarded |-> {} ]
         ELSE [ out |-> msg_sender, pending |-> pending,
                discarded |-> {task.msg.id} ]
    ELSE [ out |-> Append(msg_sender, task.msg), pending |-> pending,
           discarded |-> {} ]

\* an iteration that ends without state.process_changes()
LoopTailNoProcess(st, state_changed, msg_sender, pool1, subscriptions) ==
    LET pool3 == IF state_changed
                 THEN pool1 (+) One(DiagTask(snapshot(st), subscriptions))
                 ELSE pool1
    IN /\ state' = Collect(st, pool3)
       /\ out' = IF st.roots_to_scan = 0
                 THEN feedback(internal_mode, "workspace loaded", msg_sender)
                 ELSE msg_sender
       /\ pool' = pool3

\* an iteration that reports the workspace loaded with one root left to scan
LoopTailEarly(st, state_changed, msg_sender, pool1, subscriptions) ==
    LET pc == process_changes(st)
        pool2 == pool1 (+) SetToBag({IndexTask(r) : r \in pc.libs})
        pool3 == IF state_changed
                 THEN pool2 (+) One(DiagTask(snapshot(pc.state), subscriptions))
                 ELSE pool2
    IN /\ state' = Collect(pc.state, pool3)
       /\ out' = IF pc.state.roots_to_scan <= 1
                 THEN feedback(internal_mode, "workspace loaded", msg_sender)
                 ELSE msg_sender
       /\ pool' = pool3

\* an iteration that takes the snapshot before state.process_changes()
LoopTailSnapshotFirst(st, state_changed, msg_sender, pool1, subscriptions) ==
    LET pc == process_changes(st)
        pool2 == pool1 (+) SetToBag({IndexTask(r) : r \in pc.libs})
        pool3 == IF state_changed
                 THEN pool2 (+) One(DiagTask(snapshot(st), subscriptions))
                 ELSE pool2
    IN /\ state' = Collect(pc.state, pool3)
       /\ out' = IF pc.state.roots_to_scan = 0
                 THEN feedback(internal_mode, "workspace loaded", msg_sender)
                 ELSE msg_sender
       /\ pool' = pool3

\* main_loop_inner, lines 185 to 208: what every iteration ends with
LoopTail(st, state_changed, msg_sender, pool1, subscriptions) ==
    LET pc == process_changes(st)
        pool2 == pool1 (+) SetToBag({IndexTask(r) : r \in pc.libs})
        pool3 == IF state_changed
                 THEN pool2 (+) One(DiagTask(snapshot(pc.state), subscriptions))
                 ELSE pool2
    IN /\ state' = Collect(pc.state, pool3)
       /\ out' = IF pc.state.roots_to_scan = 0
                 THEN feedback(internal_mode, "workspace loaded", msg_sender)
                 ELSE msg_sender
       /\ pool' = pool3

\* a return after which main_loop does not drain the task channel
ReturnNoDrain(result) ==
    /\ mainPc' = "done"
    /\ main_res' = result

\* a return that is none: the loop goes on selecting
ReturnKeepLooping(result) ==
    /\ mainPc' = "select"
    /\ main_res' = result

\* main_loop_inner returns: the loop is over, main_loop goes on to the drain
Return(result) ==
    /\ mainPc' = "drain"
    /\ main_res' = result

\* Event::Msg(RawMessage::Request), shutdown
ClientShutdown ==
    /\ ClientMaySend
    /\ client' = Sent
    /\ out' = Append(out, RawResponse(ShutdownId, Ok, NoText))
    /\ Return("Ok")
    /\ UNCHANGED << libVars, ret, internal_mode, publish_decorations, res, state,
                    pending_requests, subs, pool, task_chan, lib_chan,
                    vfs_chan, hist >>

\* Event::Msg(RawMessage::Request), any other request: on_request up to
\* finish(), and the MethodNotFound reply when no kind took it
ClientRequest(method, file) ==
    /\ ClientMaySend
    /\ LET req == [id |-> client.req_id, method |-> method, file |-> file]
           d == Dispatch(req, state)
           f == PoolDispatcher_finish(d)
       IN /\ client' = [Sent EXCEPT !.req_id = @ + 1]
          /\ hist' = [hist EXCEPT
                 !.requests = @ \cup
                     {[ id |-> req.id, file |-> file,
                        kinds |-> Cardinality({i \in 1..Len(Kinds) : cast(req, Kinds[i])}),
                        accepted |-> f.tag = "Ok",
                        tasks |-> BagCardinality(d.spawned),
                        text |-> IF file \in WorkspaceFiles
                                 THEN Current(state).files[file] ELSE NoText ]}]
          /\ CASE f.tag = "Ok" ->
                    /\ res' = f.id
                    /\ mainPc' = "insert"
                    /\ pool' = pool (+) d.spawned
                    /\ UNCHANGED << state, out >>
               [] f.tag = "Err" ->
                    /\ LoopTail(state, FALSE,
                                Append(out, RawResponse(f.req.id, MethodNotFound, NoText)),
                                pool (+) d.spawned, subs)
                    /\ UNCHANGED << res, mainPc >>
               [] OTHER ->
                    /\ mainPc' = "unreachable"
                    /\ UNCHANGED << res, pool, state, out >>
    /\ UNCHANGED << libVars, ret, internal_mode, publish_decorations, main_res,
                    pending_requests, subs, task_chan, lib_chan, vfs_chan >>

\* on_request, lines 259 to 266, and the end of the iteration
OnRequestInsert ==
    /\ mainPc = "insert"
    /\ IF res \in pending_requests
       THEN /\ mainPc' = "panicked"
            /\ UNCHANGED << res, pending_requests, state, out, pool >>
       ELSE /\ pending_requests' = pending_requests \cup {res}
            /\ res' = NoId
            /\ mainPc' = "select"
            /\ LoopTail(state, FALSE, out, pool, subs)
    /\ UNCHANGED << libVars, ret, internal_mode, publish_decorations, main_res, subs,
                    task_chan, lib_chan, vfs_chan, client, hist >>

\* the cancel branch with the id left in the set
CancelRemoveKeep(pending, id) == pending

\* on_notification, line 284: pending_requests.remove(&id)
CancelRemove(pending, id) == pending \ {id}

\* on_notification, req::Cancel
ClientCancel(id) ==
    /\ ClientMaySend
    /\ client' = Sent
    /\ IF id \in pending_requests
       THEN /\ pending_requests' = CancelRemove(pending_requests, id)
            /\ hist' = [hist EXCEPT !.cancelled = @ \cup {id}]
            /\ LoopTail(state, TRUE,
                        Append(out, RawResponse(id, RequestCancelled, NoText)),
                        pool, subs)
       ELSE /\ UNCHANGED << pending_requests, hist >>
            /\ LoopTail(state, TRUE, out, pool, subs)
    /\ UNCHANGED << libVars, ret, internal_mode, publish_decorations, mainPc, main_res, res,
                    subs, task_chan, lib_chan, vfs_chan >>

\* a didOpen that subscribes nothing
DidOpenSubs_None(subscriptions, file_id) == subscriptions

\* on_notification, lines 302 to 308: add_sub when the vfs gave a file id
DidOpenSubs(subscriptions, file_id) ==
    IF file_id # NoFile THEN subscriptions \cup {file_id} ELSE subscriptions

\* on_notification, lines 334 to 336: remove_sub when the vfs gave a file id
DidCloseSubs(subscriptions, file_id) ==
    IF file_id # NoFile THEN subscriptions \ {file_id} ELSE subscriptions

\* a didClose that tells the client only about files the vfs knew
DidCloseSend_OnlyKnown(msg_sender, uri, file_id) ==
    IF file_id = NoFile THEN msg_sender
    ELSE Append(msg_sender, RawNotification("publishDiagnostics", uri, NoText))

\* on_notification, lines 337 to 342: PublishDiagnostics with Vec::new()
DidCloseSend(msg_sender, uri, file_id) ==
    Append(msg_sender, RawNotification("publishDiagnostics", uri, NoText))

\* on_notification, req::DidOpenTextDocument
ClientDidOpen(uri) ==
    /\ ClientMaySend
    /\ client' = Sent
    /\ IF uri = InvalidUri
       THEN /\ Return("Err")
            /\ UNCHANGED << state, subs, out, pool >>
       ELSE LET r == add_file_overlay(state, uri, NewText)
                subs1 == DidOpenSubs(subs, r.file)
            IN /\ subs' = subs1
               /\ LoopTail(r.state, TRUE, out, pool, subs1)
               /\ UNCHANGED << mainPc, main_res >>
    /\ UNCHANGED << libVars, ret, internal_mode, publish_decorations, res, pending_requests,
                    task_chan, lib_chan, vfs_chan, hist >>

\* on_notification, req::DidChangeTextDocument
ClientDidChange(uri, content_changes) ==
    /\ ClientMaySend
    /\ client' = Sent
    /\ IF uri = InvalidUri \/ content_changes = << >>
       THEN /\ Return("Err")
            /\ UNCHANGED << state, out, pool >>
       ELSE /\ LoopTail(change_file_overlay(state, uri,
                            content_changes[Len(content_changes)]),
                        TRUE, out, pool, subs)
            /\ UNCHANGED << mainPc, main_res >>
    /\ UNCHANGED << libVars, ret, internal_mode, publish_decorations, res, pending_requests,
                    subs, task_chan, lib_chan, vfs_chan, hist >>

\* on_notification, req::DidCloseTextDocument
ClientDidClose(uri) ==
    /\ ClientMaySend
    /\ client' = Sent
    /\ IF uri = InvalidUri
       THEN /\ Return("Err")
            /\ UNCHANGED << state, subs, out, pool >>
       ELSE LET r == remove_file_overlay(state, uri)
                subs1 == DidCloseSubs(subs, r.file)
            IN /\ subs' = subs1
               /\ LoopTail(r.state, TRUE, DidCloseSend(out, uri, r.file),
                           pool, subs1)
               /\ UNCHANGED << mainPc, main_res >>
    /\ UNCHANGED << libVars, ret, internal_mode, publish_decorations, res, pending_requests,
                    task_chan, lib_chan, vfs_chan, hist >>

\* on_notification, a notification of no known kind: logged
ClientOtherNotification ==
    /\ ClientMaySend
    /\ client' = Sent
    /\ LoopTail(state, TRUE, out, pool, subs)
    /\ UNCHANGED << libVars, ret, internal_mode, publish_decorations, mainPc, main_res, res,
                    pending_requests, subs, task_chan, lib_chan, vfs_chan, hist >>

\* Event::Msg(RawMessage::Response): logged
ClientResponse ==
    /\ ClientMaySend
    /\ client' = Sent
    /\ LoopTail(state, FALSE, out, pool, subs)
    /\ UNCHANGED << libVars, ret, internal_mode, publish_decorations, mainPc, main_res, res,
                    pending_requests, subs, task_chan, lib_chan, vfs_chan, hist >>

\* the client takes the next message off its end of the bounded channel
ClientRecv ==
    /\ client.recv < Len(out)
    /\ client' = [client EXCEPT !.recv = @ + 1]
    /\ UNCHANGED << libVars, ret, internal_mode, publish_decorations, mainPc, main_res, res,
                    state, pending_requests, subs, pool, task_chan, lib_chan,
                    vfs_chan, out, hist >>

\* select!, line 137: the client's end of the channel is gone and no
\* shutdown request came
ClientExit ==
    /\ ClientMaySend
    /\ client' = Sent
    /\ Return("client exited without shutdown")
    /\ UNCHANGED << libVars, ret, internal_mode, publish_decorations, res, state,
                    pending_requests, subs, pool, task_chan, lib_chan,
                    vfs_chan, out, hist >>

\* select!, line 141: the vfs' task channel is closed; no scan result comes.
\* The failure counts among the inputs the bounds allow.
VfsDied ==
    /\ ClientMaySend
    /\ client' = Sent
    /\ vfs_chan' = {}
    /\ Return("vfs died")
    /\ UNCHANGED << libVars, ret, internal_mode, publish_decorations, res, state,
                    pending_requests, subs, pool, task_chan, lib_chan,
                    out, hist >>

\* Event::Vfs
VfsEvent(root) ==
    /\ Selecting
    /\ root \in vfs_chan
    /\ vfs_chan' = vfs_chan \ {root}
    /\ LoopTail(handle_task(state, root), TRUE, out, pool, subs)
    /\ UNCHANGED << libVars, ret, internal_mode, publish_decorations, mainPc, main_res, res,
                    pending_requests, subs, task_chan, lib_chan, client, hist >>

\* Event::Lib
LibEvent ==
    /\ Selecting
    /\ lib_chan # << >>
    /\ lib_chan' = Tail(lib_chan)
    /\ LoopTail(add_lib(state, Head(lib_chan)), FALSE,
                feedback(internal_mode, "library loaded", out), pool, subs)
    /\ UNCHANGED << libVars, ret, internal_mode, publish_decorations, mainPc, main_res, res,
                    pending_requests, subs, task_chan, vfs_chan, client, hist >>

\* Event::Task
TaskEvent ==
    /\ Selecting
    /\ task_chan # << >>
    /\ LET r == on_task(Head(task_chan), out, pending_requests)
       IN /\ pending_requests' = r.pending
          /\ hist' = [hist EXCEPT !.discarded = @ \cup r.discarded]
          /\ LoopTail(state, FALSE, r.out, pool, subs)
    /\ task_chan' = Tail(task_chan)
    /\ UNCHANGED << libVars, ret, internal_mode, publish_decorations, mainPc, main_res, res,
                    subs, lib_chan, vfs_chan, client >>

\* a closure in the pool still holds a clone of task_sender
SenderAlive == \E t \in BagToSet(pool) : t.kind \in {"request", "diag", "sender"}

\* main_loop, line 97: task_receiver.for_each(on_task)
DrainTask ==
    /\ mainPc = "drain"
    /\ task_chan # << >>
    /\ LET r == on_task(Head(task_chan), out, pending_requests)
       IN /\ pending_requests' = r.pending
          /\ hist' = [hist EXCEPT !.discarded = @ \cup r.discarded]
          /\ out' = r.out
    /\ task_chan' = Tail(task_chan)
    /\ UNCHANGED << libVars, ret, internal_mode, publish_decorations, mainPc, main_res, res,
                    state, subs, pool, lib_chan, vfs_chan, client >>

\* lines 106 to 109 without the `main_res?`
ReturnValueVfsOnly(inner, vfs_res) ==
    IF vfs_res # "Ok" THEN "fs watcher died" ELSE "Ok"

\* main_loop, lines 106 to 109: main_res?; vfs_res.map_err(..)?; Ok(())
ReturnValue(inner, vfs_res) ==
    IF inner # "Ok" THEN inner
    ELSE IF vfs_res # "Ok" THEN "fs watcher died"
    ELSE "Ok"

\* main_loop, lines 98 to 109: the channel is closed and empty; the pool is
\* dropped, the vfs is shut down and main_loop returns
DrainEnd ==
    /\ mainPc = "drain"
    /\ task_chan = << >>
    /\ ~SenderAlive
    /\ mainPc' = "done"
    /\ \E vfs_res \in {"Ok", "Err"} :
          ret' = [vfs_res |-> vfs_res, value |-> ReturnValue(main_res, vfs_res)]
    /\ UNCHANGED << libVars, internal_mode, publish_decorations, main_res,
                    res, state, pending_requests, subs, pool, task_chan,
                    lib_chan, vfs_chan, out, client, hist >>

(***************************************************************************)
(* The pool threads.                                                       *)
(***************************************************************************)
\* a channel with a capacity: a send waits while the channel is full
HasRoomBounded(chan, n) == Len(chan) + n <= ChannelCap

\* unbounded(): a send on the task channel or the library channel finds room
\* whatever the channel holds
HasRoom(chan, n) == TRUE

\* what a handler can end with: its result, an LspError, any other error,
\* or Canceled once the snapshot's token has been flipped
HandlerResults(st, world) ==
    {Ok, LspErrorCode, InternalError}
        \cup (IF is_canceled(st, world) THEN {RequestCancelled} ELSE {})

\* a handler that reads the world as it is when the closure runs
HandlerReadLive(st, t) == Current(st).files[t.file]

\* f(world, params): the handler reads through the snapshot moved into the
\* closure
HandlerRead(st, t) == SnapshotText(st, t.world, t.file)

\* the closure of PoolDispatcher::on: run the handler, send Task::Respond
WorkerRequest(t, code) ==
    /\ t \in BagToSet(pool)
    /\ t.kind = "request"
    /\ code \in HandlerResults(state, t.world)
    /\ HasRoom(task_chan, 1)
    /\ task_chan' = Append(task_chan,
           Respond(RawResponse(t.id, code,
               IF code = Ok THEN HandlerRead(state, t) ELSE NoText)))
    /\ pool' = (pool (-) One(t)) (+) One(RequestClosureEnd(t))
    /\ state' = Collect(state, pool')
    /\ UNCHANGED << libVars, ret, internal_mode, publish_decorations, mainPc, main_res, res,
                    pending_requests, subs, lib_chan, vfs_chan, out,
                    client, hist >>

\* what the closure of update_file_notifications_on_threadpool sends for one
\* file: diagnostics if they were computed, decorations if asked for and computed
FileNotifications(st, t, f, diag_ok, deco_ok) ==
    (IF diag_ok
     THEN << Notify(RawNotification("publishDiagnostics", f,
                                    SnapshotText(st, t.world, f))) >>
     ELSE << >>)
    \o
    (IF publish_decorations /\ deco_ok
     THEN << Notify(RawNotification("publishDecorations", f,
                                    SnapshotText(st, t.world, f))) >>
     ELSE << >>)

\* one round of the for loop of update_file_notifications_on_threadpool;
\* the closure ends with the last file.  publish_diagnostics and
\* publish_decorations fail with Canceled once the snapshot's token is flipped
WorkerDiag(t, f, diag_ok, deco_ok) ==
    /\ t \in BagToSet(pool)
    /\ t.kind = "diag"
    /\ IF t.todo = {}
       THEN /\ f = NoFile /\ diag_ok /\ deco_ok
            /\ pool' = (pool (-) One(t)) (+) One(DiagClosureEnd(t))
            /\ UNCHANGED task_chan
       ELSE /\ f \in t.todo
            /\ (diag_ok /\ deco_ok) \/ is_canceled(state, t.world)
            /\ publish_decorations \/ deco_ok
            /\ HasRoom(task_chan, Len(FileNotifications(state, t, f, diag_ok, deco_ok)))
            /\ task_chan' = task_chan \o FileNotifications(state, t, f, diag_ok, deco_ok)
            /\ pool' = IF t.todo = {f}
                       THEN (pool (-) One(t)) (+) One(DiagClosureEnd(t))
                       ELSE (pool (-) One(t)) (+) One([t EXCEPT !.todo = @ \ {f}])
    /\ state' = Collect(state, pool')
    /\ UNCHANGED << libVars, ret, internal_mode, publish_decorations, mainPc, main_res, res,
                    pending_requests, subs, lib_chan, vfs_chan, out,
                    client, hist >>

\* the indexing closure: LibraryData::prepare, then the send on libdata_sender
WorkerIndex(t) ==
    /\ t \in BagToSet(pool)
    /\ t.kind = "index"
    /\ HasRoom(lib_chan, 1)
    /\ lib_chan' = Append(lib_chan, t.root)
    /\ pool' = pool (-) One(t)
    /\ UNCHANGED << libVars, ret, internal_mode, publish_decorations, mainPc, main_res, res,
                    state, pending_requests, subs, task_chan, vfs_chan, out,
                    client, hist >>

\* the closing brace of a closure: what it still holds is dropped
WorkerExit(t) ==
    /\ t \in BagToSet(pool)
    /\ t.kind \in {"sender", "world"}
    /\ pool' = pool (-) One(t)
    /\ state' = Collect(state, pool')
    /\ UNCHANGED << libVars, ret, internal_mode, publish_decorations, mainPc, main_res, res,
                    pending_requests, subs, task_chan, lib_chan, vfs_chan, out,
                    client, hist >>

ClientRequests ==
    {<< m, f >> : m \in ClientMethods \ {UnknownMethod}, f \in WorkspaceFiles}
        \cup {<< UnknownMethod, NoFile >>}

Next ==
    \/ ClientShutdown
    \/ \E r \in ClientRequests : ClientRequest(r[1], r[2])
    \/ OnRequestInsert
    \/ \E uri \in Uris : ClientDidClose(uri)
    \/ \E id \in FirstReqId..client.limit : ClientCancel(id)
    \/ \E uri \in Uris : ClientDidOpen(uri)
    \/ \E uri \in Uris, cs \in {<< >>, << NewText >>} : ClientDidChange(uri, cs)
    \/ ClientOtherNotification
    \/ ClientResponse
    \/ ClientExit
    \/ VfsDied
    \/ \E root \in Roots : VfsEvent(root)
    \/ LibEvent
    \/ TaskEvent
    \/ DrainTask
    \/ DrainEnd
    \/ \E t \in BagToSet(pool), code \in {Ok, LspErrorCode, InternalError, RequestCancelled} :
          WorkerRequest(t, code)
    \/ \E t \in BagToSet(pool), f \in WorkspaceFiles \cup {NoFile}, d \in BOOLEAN, c \in BOOLEAN :
          WorkerDiag(t, f, d, c)
    \/ \E t \in BagToSet(pool) : WorkerIndex(t)
    \/ \E t \in BagToSet(pool) : WorkerExit(t)

Spec == Init /\ [][Next]_vars

(***************************************************************************)
(* A second specification for what must eventually happen: select! does    *)
(* not starve a ready channel, main_loop does not stop in the middle, and  *)
(* a closure handed to the pool is run and runs to its end.                *)
(***************************************************************************)
Fairness ==
    /\ WF_vars(OnRequestInsert)
    /\ WF_vars(TaskEvent)
    /\ WF_vars(DrainTask)
    /\ WF_vars(DrainEnd)
    /\ WF_vars(\E t \in BagToSet(pool), code \in {Ok} : WorkerRequest(t, code))
    /\ WF_vars(\E t \in BagToSet(pool), f \in WorkspaceFiles \cup {NoFile} :
                  WorkerDiag(t, f, TRUE, TRUE))
    /\ WF_vars(\E t \in BagToSet(pool) : WorkerExit(t))

FairSpec == Spec /\ Fairness

(***************************************************************************)
(* A third specification in which the channel to the client is bounded, as *)
(* the harness sets it up: a step of the loop that sends waits until all   *)
(* it sends finds room, and the client empties the channel at its own      *)
(* pace.  The harness runs main_loop(true, path, true, ...).               *)
(***************************************************************************)
BoundedInit == Init /\ internal_mode /\ publish_decorations

\* msg_sender.send on the bounded channel
ClientChannelHasRoom == Len(out') - client.recv <= ChannelCap

BoundedNext ==
    \/ Next /\ ClientChannelHasRoom
    \/ ClientRecv

BoundedSpec == BoundedInit /\ [][BoundedNext]_vars

(***************************************************************************)
(* The registries on their own: any sequence of calls on a fresh PathMap   *)
(* and a fresh FileMap, of at most MaxFiles files each.                    *)
(***************************************************************************)
RegistryInit ==
    /\ Init
    /\ internal_mode
    /\ publish_decorations
    /\ vfs_chan = {WorkspaceRoot}

GetOrInsert(path, root) ==
    LET r == get_or_insert(path_map, path, root)
    IN  /\ r.map.next_id <= MaxFiles
        /\ path_map' = r.map
        /\ call' = [op |-> "get_or_insert", path |-> path, root |-> root,
                    inserted |-> r.inserted, file_id |-> r.file_id]
        /\ UNCHANGED << file_map, treeVars, loopVars >>

Add(path) ==
    LET r == FileMap_add(file_map, path)
    IN  /\ Len(r.map) <= MaxFiles
        /\ file_map' = r.map
        /\ call' = [op |-> "add", path |-> path, file_id |-> r.file_id]
        /\ UNCHANGED << path_map, treeVars, loopVars >>

Resolve(id, rel) ==
    /\ call' = [op |-> "resolve", id |-> id, rel |-> rel,
                result |-> FileMap_resolve(file_map, id, rel)]
    /\ UNCHANGED << path_map, file_map, treeVars, loopVars >>

RegistryNext ==
    \/ \E path \in Paths, root \in Root : GetOrInsert(path, root)
    \/ \E path \in RelativePaths : Add(path)
    \/ \E id \in FileMap_files(file_map), rel \in Rels : Resolve(id, rel)

RegistrySpec == RegistryInit /\ [][RegistryNext]_vars

(***************************************************************************)
(* The syntax tree on its own: the builder is driven through any balanced  *)
(* run of at most MaxNodes nodes and MaxErrors errors, and the File it     *)
(* yields is then read through the two iterators.                          *)
(***************************************************************************)
TreeInit ==
    /\ Init
    /\ internal_mode
    /\ publish_decorations
    /\ vfs_chan = {WorkspaceRoot}

Building == ~builder.sealed /\ builder.in_progress # << >>

\* start node: the root when nothing was started, else a child of the top
StartInternal ==
    /\ ~builder.sealed
    /\ Len(tree.nodes) < MaxNodes
    /\ builder.in_progress = << >> => tree.nodes = << >>
    /\ LET id == Len(tree.nodes)
           data == NodeData("NODE", builder.pos, 0)
           r == IF builder.in_progress = << >>
                THEN [file |-> FileBuilder_new_node(tree, data),
                      builder |-> builder]
                ELSE FileBuilder_push_child(tree, builder, data)
       IN  /\ tree' = r.file
           /\ builder' = [r.builder EXCEPT
                             !.in_progress = Append(@, << id, None >>)]
    /\ UNCHANGED << iter, path_map, file_map, call, loopVars >>

\* add token: a leaf child of the top that takes len bytes of the text
Leaf(len) ==
    /\ Building
    /\ Len(tree.nodes) < MaxNodes
    /\ LET id == Len(tree.nodes)
           r == FileBuilder_push_child(tree, builder,
                                       NodeData("TOKEN", builder.pos, len))
       IN  /\ tree' = FileBuilder_add_len(r.file, id)
           /\ builder' = [r.builder EXCEPT !.pos = @ + len]
    /\ UNCHANGED << iter, path_map, file_map, call, loopVars >>

\* finish node: the top is closed; closing the root seals the File
FinishInternal ==
    /\ Building
    /\ LET id == FileBuilder_top(builder)[1]
           rest == SubSeq(builder.in_progress, 1, Len(builder.in_progress) - 1)
       IN  /\ tree' = IF rest # << >> THEN FileBuilder_add_len(tree, id)
                      ELSE tree
           /\ builder' = [builder EXCEPT !.in_progress = rest,
                                         !.sealed = (rest = << >>)]
    /\ UNCHANGED << iter, path_map, file_map, call, loopVars >>

\* add error: the error is appended for the top
Error ==
    /\ Building
    /\ Len(tree.errors) < MaxErrors
    /\ tree' = [tree EXCEPT !.errors =
                   Append(@, [node |-> FileBuilder_top(builder)[1],
                              message |-> "error"])]
    /\ UNCHANGED << builder, iter, path_map, file_map, call, loopVars >>

\* the nodes of the File
NodeIdxs == 0 .. Len(tree.nodes) - 1

\* node.SyntaxErrors()
SyntaxErrors(node) ==
    /\ builder.sealed
    /\ iter' = [kind |-> "errors", node |-> node,
                next |-> Node_SyntaxErrors(tree, node), yielded |-> << >>,
                status |-> "running"]
    /\ UNCHANGED << tree, builder, path_map, file_map, call, loopVars >>

\* node.children()
Children(node) ==
    /\ builder.sealed
    /\ iter' = [kind |-> "children", node |-> node,
                next |-> Node_children(tree, node), yielded |-> << >>,
                status |-> "running"]
    /\ UNCHANGED << tree, builder, path_map, file_map, call, loopVars >>

\* Iterator::next of SyntaxErrors
SyntaxErrors_next ==
    /\ iter.kind = "errors"
    /\ iter.status = "running"
    /\ IF iter.next = None
       THEN iter' = [iter EXCEPT !.status = "done"]
       ELSE LET r == SyntaxError_next(tree, iter.next)
            IN  IF r.panic
                THEN iter' = [iter EXCEPT !.status = "panicked"]
                ELSE iter' = [iter EXCEPT !.next = r.next,
                                          !.yielded = Append(@, iter.next)]
    /\ UNCHANGED << tree, builder, path_map, file_map, call, loopVars >>

\* Iterator::next of Children
Children_Iterator_next ==
    /\ iter.kind = "children"
    /\ iter.status = "running"
    /\ IF iter.next = None
       THEN iter' = [iter EXCEPT !.status = "done"]
       ELSE iter' = [iter EXCEPT !.next = Children_next(tree, iter.next),
                                 !.yielded = Append(@, iter.next)]
    /\ UNCHANGED << tree, builder, path_map, file_map, call, loopVars >>

TreeNext ==
    \/ StartInternal
    \/ \E len \in TokenLens : Leaf(len)
    \/ FinishInternal
    \/ Error
    \/ \E node \in NodeIdxs : SyntaxErrors(node)
    \/ \E node \in NodeIdxs : Children(node)
    \/ SyntaxErrors_next
    \/ Children_Iterator_next

TreeSpec == TreeInit /\ [][TreeNext]_vars

(***************************************************************************)
(* Vocabulary of the properties.                                           *)
(***************************************************************************)
\* every id a client request can carry within the bounds
ReqIds == FirstReqId..(MaxInputs + MaxLibInputs)

\* positions in out of the responses sent under an id
ResponsesFor(id) ==
    {i \in 1..Len(out) : out[i].type = "Response" /\ out[i].id = id}

\* positions in out' of what this step sent
NewlySent == (Len(out) + 1)..Len(out')

Accepted == {r \in hist.requests : r.accepted}
Rejected == {r \in hist.requests : ~r.accepted}

ShutdownAt ==
    {i \in 1..Len(out) : out[i].type = "Response" /\ out[i].id = ShutdownId}

(***************************************************************************)
(* C1.  At most one response is ever sent under a request id, and on_task  *)
(* and the cancel branch send a response only in a step that removes its   *)
(* id from the pending set.                                                *)
(***************************************************************************)
C1_AtMostOneResponse ==
    /\ [](\A id \in ReqIds : Cardinality(ResponsesFor(id)) <= 1)
    /\ [][\A i \in NewlySent :
            ( /\ out'[i].type = "Response"
              /\ out'[i].code # MethodNotFound
              /\ out'[i].id # ShutdownId )
            => ( /\ out'[i].id \in pending_requests
                 /\ out'[i].id \notin pending_requests' )]_vars

\* a worker's response arrived for an id the client had cancelled: the id has
\* the one response of the cancel branch and the worker's was not forwarded
C1_Witness ==
    \E id \in hist.discarded \cap hist.cancelled :
        Cardinality(ResponsesFor(id)) = 1

(***************************************************************************)
(* C2.  No leak: the id of an accepted request does not stay in the        *)
(* pending set for ever, also when the loop returns (shutdown, or a fatal  *)
(* error) while the request is in flight; when main_loop has finished its  *)
(* drain the pending set is empty.  Checked under FairSpec.                *)
(***************************************************************************)
C2_NoLeak ==
    /\ \A id \in ReqIds :
          (id \in pending_requests) ~> (id \notin pending_requests)
    /\ [](mainPc = "done" => pending_requests = {})

\* the shutdown request overtook a request in flight, whose response the
\* drain forwarded after the response to shutdown
C2_Witness ==
    /\ mainPc = "done"
    /\ main_res = "Ok"
    /\ \E r \in Accepted : \E i \in ResponsesFor(r.id), j \in ShutdownAt :
          j < i /\ out[i].code = Ok

(***************************************************************************)
(* C3.  A cancel notification for a pending id removes the id and sends,   *)
(* in the same iteration, the one response the id ever gets, an error with *)
(* code RequestCancelled; the worker's later Respond is not forwarded.     *)
(***************************************************************************)
C3_CancelPending ==
    \A id \in hist.cancelled :
        /\ id \notin pending_requests
        /\ Cardinality(ResponsesFor(id)) = 1
        /\ \A i \in ResponsesFor(id) :
              out[i] = RawResponse(id, RequestCancelled, NoText)

\* the worker's Respond for a cancelled id has been taken off the channel
C3_Witness ==
    \E id \in hist.cancelled :
        /\ id \in hist.discarded
        /\ \A t \in BagToSet(pool) : t.id # id
        /\ \A i \in 1..Len(task_chan) : task_chan[i].msg.id # id

(***************************************************************************)
(* C4.  The claim as stated: an iteration that handles a cancel for an id  *)
(* that is not pending sends nothing and leaves the pending set, the       *)
(* subscriptions and the world as they were.                               *)
(***************************************************************************)
C4_CancelUnknownIsNoOp ==
    [][\A id \in ReqIds :
          (ClientCancel(id) /\ id \notin pending_requests)
          => ( /\ out' = out
               /\ UNCHANGED << pending_requests, subs, state >> )]_vars

(***************************************************************************)
(* C5.  The closure is handed to the pool before the id is inserted, yet   *)
(* the loop takes no event between the two: a worker's Respond is dropped  *)
(* only for an id the client cancelled, and whenever the loop selects, the *)
(* id of every accepted request is pending or has been answered.           *)
(***************************************************************************)
C5_InsertBeforeNextEvent ==
    /\ hist.discarded \subseteq hist.cancelled
    /\ \A r \in Accepted :
          \/ r.id \in pending_requests
          \/ ResponsesFor(r.id) # {}
          \/ mainPc = "insert" /\ res = r.id

\* the worker has already sent its Respond and the id is not yet inserted
C5_Witness ==
    /\ mainPc = "insert"
    /\ res \notin pending_requests
    /\ \E i \in 1..Len(task_chan) :
          task_chan[i].task = "Respond" /\ task_chan[i].msg.id = res

(***************************************************************************)
(* C6.  Snapshot isolation: whatever the loop does to the world while a    *)
(* closure holds a snapshot (overlay open, change, close, filesystem       *)
(* event, library installed), every read through that snapshot returns     *)
(* after the step what it returned before it.                              *)
(***************************************************************************)
HeldWorlds(closures) ==
    {t.world : t \in {c \in BagToSet(closures) :
                                c.kind \notin {"index", "sender"}}}

C8_RequestTimeOrCancelled ==
    \A r \in Accepted : \A i \in ResponsesFor(r.id) :
        \/ out[i].code = Ok /\ out[i].text = r.text
        \/ out[i].code = RequestCancelled

(***************************************************************************)
(* C8, amended.  A result sent under a request's id is computed against    *)
(* the snapshot taken when the loop received the request: it reflects the  *)
(* changes handled before the request and none handled after; the other    *)
(* outcomes for the id are error responses, with RequestCancelled, with    *)
(* the code of an LspError the handler returned, or with InternalError.    *)
(***************************************************************************)
C8_RequestTimeSnapshot ==
    \A r \in Accepted : \A i \in ResponsesFor(r.id) :
        /\ out[i].code \in {Ok, RequestCancelled, LspErrorCode, InternalError}
        /\ out[i].code = Ok => out[i].text = r.text
        /\ out[i].code # Ok => out[i].text = NoText

\* a result has been sent for a file the loop changed after the request
C8_Witness ==
    \E r \in Accepted : \E i \in ResponsesFor(r.id) :
        /\ out[i].code = Ok
        /\ out[i].text = r.text
        /\ Current(state).files[r.file] # r.text

(***************************************************************************)
(* C9.  A request other than shutdown is accepted by exactly one kind, one *)
(* closure is handed to the pool and its id is inserted in the pending     *)
(* set; or no kind accepts it, nothing is spawned, its id is not inserted  *)
(* and one MethodNotFound response is sent.  finish() never reaches        *)
(* unreachable!().                                                         *)
(***************************************************************************)
C9_OneKindOrMethodNotFound ==
    /\ mainPc # "unreachable"
    /\ \A r \in hist.requests :
          IF r.accepted
          THEN /\ r.kinds = 1
               /\ r.tasks = 1
               /\ \A i \in ResponsesFor(r.id) : out[i].code # MethodNotFound
               /\ \/ mainPc = "insert" /\ res = r.id
                  \/ r.id \in pending_requests
                  \/ ResponsesFor(r.id) # {}
          ELSE /\ r.kinds = 0
               /\ r.tasks = 0
               /\ r.id \notin pending_requests
               /\ \A t \in BagToSet(pool) : t.id # r.id
               /\ Cardinality(ResponsesFor(r.id)) = 1
               /\ \A i \in ResponsesFor(r.id) :
                     out[i] = RawResponse(r.id, MethodNotFound, NoText)

\* the client has sent a request some kind took and one no kind took
C9_Witness ==
    /\ \E r \in Accepted : r.id \in pending_requests
    /\ Rejected # {}

(***************************************************************************)
(* C10.  The claim as stated: the response to shutdown is the last message *)
(* the client is sent.                                                     *)
(***************************************************************************)
C10_ShutdownResponseIsLast ==
    \A j \in ShutdownAt : j = Len(out)

(***************************************************************************)
(* C10, amended.  After the response to shutdown the loop takes no further *)
(* event and sends no feedback; the only messages the client is still sent *)
(* are those that on_task forwards while main_loop drains the task         *)
(* channel: notifications of closures still running and the responses to   *)
(* requests still pending.                                                 *)
(***************************************************************************)
C10_OnlyDrainAfterShutdown ==
    [][ShutdownAt # {} =>
          \/ out' = out
          \/ /\ mainPc = "drain"
             /\ task_chan # << >>
             /\ out' = Append(out, Head(task_chan).msg)
             /\ Head(task_chan).task = "Respond"
                   => Head(task_chan).msg.id \in pending_requests]_vars

\* the drain forwarded a message after the response to shutdown
C10_Witness ==
    \E j \in ShutdownAt : j < Len(out) /\ mainPc = "done"

(***************************************************************************)
(* C11.  Deadlock freedom, with the channel to the client bounded: a       *)
(* closure in the pool always has a step it can take (its sends on the     *)
(* task channel and the library channel never wait, and it never waits for *)
(* the loop); and whenever the loop has an event to handle or a channel to *)
(* drain, it can take its step, or it waits for room in the client channel *)
(* and the client has a message to take, or it waits at the end of the     *)
(* drain for closures that can all move.                                   *)
(***************************************************************************)
WorkerStep(t) ==
    \/ \E code \in {Ok, LspErrorCode, InternalError, RequestCancelled} :
          WorkerRequest(t, code)
    \/ \E f \in WorkspaceFiles \cup {NoFile}, d \in BOOLEAN, c \in BOOLEAN :
          WorkerDiag(t, f, d, c)
    \/ WorkerIndex(t)
    \/ WorkerExit(t)

\* the steps the loop takes without a message of the client
InternalLoopStep ==
    \/ OnRequestInsert
    \/ \E root \in Roots : VfsEvent(root)
    \/ LibEvent
    \/ TaskEvent
    \/ DrainTask
    \/ DrainEnd

LoopHasEvent ==
    \/ mainPc \in {"insert", "drain"}
    \/ Selecting /\ (task_chan # << >> \/ lib_chan # << >> \/ vfs_chan # {})

C11_DeadlockFree ==
    /\ \A t \in BagToSet(pool) : ENABLED WorkerStep(t)
    /\ LoopHasEvent =>
          \/ ENABLED (InternalLoopStep /\ ClientChannelHasRoom)
          \/ ENABLED ClientRecv
          \/ mainPc = "drain" /\ task_chan = << >> /\ pool # EmptyBag

\* the client channel is full and the loop has a task to forward for which
\* there is no room, while a closure is still running and the task channel
\* holds more than the client channel could
C11_Witness ==
    /\ Len(out) - client.recv = ChannelCap
    /\ ENABLED (TaskEvent /\ ~ClientChannelHasRoom)
    /\ ~ENABLED (InternalLoopStep /\ ClientChannelHasRoom)
    /\ pool # EmptyBag
    /\ Len(task_chan) > ChannelCap

(***************************************************************************)
(* C12.  For a library root that process_changes returns, one indexing     *)
(* closure is spawned, one completion reaches the loop, the library is     *)
(* installed once and, in internal mode, one "library loaded" feedback is  *)
(* sent for it; with internal mode off no internalFeedback is ever sent.   *)
(***************************************************************************)
FeedbackAt(msg) ==
    {i \in 1..Len(out) : out[i] = RawNotification("internalFeedback", msg, NoText)}

\* where a library root is on its way into the world
Indexing(r) == CopiesIn(IndexTask(r), pool)
Completed(r) == Cardinality({i \in 1..Len(lib_chan) : lib_chan[i] = r})
Installed(r) == IF r \in SnapshotLibs(state, snapshot(state)) THEN 1 ELSE 0

WorkspaceLoaded == RawNotification("internalFeedback", "workspace loaded", NoText)

C13_WorkspaceLoadedAfterRoots ==
    /\ [](\A i \in FeedbackAt("workspace loaded") :
            /\ internal_mode
            /\ state.roots_to_scan = 0
            /\ vfs_chan = {}
            /\ lib_chan = << >>
            /\ \A r \in LibRoots : Indexing(r) = 0
            /\ SnapshotLibs(state, snapshot(state)) # {} =>
                  \E j \in FeedbackAt("library loaded") : j < i)
    /\ [][(internal_mode /\ state.roots_to_scan > 0 /\ state'.roots_to_scan = 0)
            => \E i \in NewlySent : out'[i] = WorkspaceLoaded]_vars

\* with a library root: both feedbacks have been sent
C13_Witness ==
    /\ FeedbackAt("library loaded") # {}
    /\ FeedbackAt("workspace loaded") # {}
    /\ SnapshotLibs(state, snapshot(state)) = LibRoots

(***************************************************************************)
(* C14.  The claim as stated: a malformed notification (didOpen, didChange *)
(* or didClose with an invalid uri, didChange with no content change)      *)
(* leaves the world, the pending set and the subscriptions as they were    *)
(* and the loop goes on selecting events.                                  *)
(***************************************************************************)
Malformed ==
    \/ ClientDidOpen(InvalidUri)
    \/ \E cs \in {<< >>, << NewText >>} : ClientDidChange(InvalidUri, cs)
    \/ \E uri \in Uris : ClientDidChange(uri, << >>)
    \/ ClientDidClose(InvalidUri)

C14_MalformedRecovered ==
    [][Malformed =>
          /\ UNCHANGED << state, pending_requests, subs >>
          /\ mainPc' = "select"
          /\ main_res' = "none"]_vars

(***************************************************************************)
(* C15.  When the client's channel closes without a shutdown request, or   *)
(* the vfs' channel closes, main_loop_inner returns an error; main_loop    *)
(* still drains the task channel and shuts the vfs down, and what it       *)
(* returns is an error.  It returns Ok only after a shutdown request and a *)
(* vfs shutdown that succeeded.                                            *)
(***************************************************************************)
C15_ErrorsReturned ==
    /\ [][(ClientExit \/ VfsDied) =>
             mainPc' = "drain" /\ main_res' \notin {"none", "Ok"}]_vars
    /\ [](mainPc = "done" =>
             /\ task_chan = << >>
             /\ ~SenderAlive
             /\ ret.vfs_res # "none"
             /\ ret.value # "none"
             /\ main_res # "Ok" => ret.value # "Ok")
    /\ [](ret.value = "Ok" =>
             /\ ShutdownAt # {}
             /\ main_res = "Ok"
             /\ ret.vfs_res = "Ok")

\* the client left with a request in flight: its response was still
\* forwarded, the vfs was shut down, and main_loop returned the error
C15_Witness ==
    /\ mainPc = "done"
    /\ main_res = "client exited without shutdown"
    /\ ret = [vfs_res |-> "Ok", value |-> "client exited without shutdown"]
    /\ \E r \in Accepted : \E i \in ResponsesFor(r.id) : out[i].code = Ok

(***************************************************************************)
(* C16.  File ids are issued monotonically, without collision, and densely *)
(* from 1: after n distinct paths went into a fresh registry (PathMap's    *)
(* get_or_insert, FileMap's add) the ids issued are exactly 1..n, every    *)
(* new id is larger than all ids issued before, and no id stands for two   *)
(* paths.                                                                  *)
(***************************************************************************)
\* the ids a PathMap has issued
Issued(m) == DOMAIN m.id2path

C16_DenseFromOne ==
    /\ []( /\ Issued(path_map) = 1..Cardinality(DOMAIN path_map.path2id)
           /\ FileMap_files(file_map) = 1..Len(file_map)
           /\ \A i, j \in 1..Len(file_map) :
                  file_map[i][1] = file_map[j][1] => i = j )
    /\ [][ /\ Issued(path_map') # Issued(path_map) =>
                 \A new \in Issued(path_map') \ Issued(path_map) :
                    \A old \in Issued(path_map) : new > old
           /\ \A old \in Issued(path_map) :
                  /\ old \in Issued(path_map')
                  /\ path_map'.id2path[old] = path_map.id2path[old]
           /\ \A new \in FileMap_files(file_map') \ FileMap_files(file_map) :
                  \A old \in FileMap_files(file_map) : new > old ]_vars

(***************************************************************************)
(* C17.  get_or_insert is idempotent.  The first call for a path returns   *)
(* (true, id) with an id not issued before and files the root it was       *)
(* given; every later call for that path, whatever its root, returns       *)
(* (false, the same id) and leaves path2id, id2path, id2root and next_id   *)
(* as they were, so the id's root is still the one of the first call.      *)
(***************************************************************************)
\* the ids under which a PathMap holds the path
IdsOf(m, path) ==
    { id \in Issued(m) : components(m.id2path[id]) = components(path) }

C17_GetOrInsertIdempotent ==
    [][call'.op = "get_or_insert" =>
          IF IdsOf(path_map, call'.path) = {}
          THEN /\ call'.inserted
               /\ call'.file_id \notin Issued(path_map)
               /\ path_map'.next_id = path_map.next_id + 1
               /\ get_root(path_map', call'.file_id) = call'.root
          ELSE /\ ~call'.inserted
               /\ IdsOf(path_map, call'.path) = {call'.file_id}
               /\ path_map' = path_map
               /\ get_root(path_map', call'.file_id)
                     = get_root(path_map, call'.file_id)]_vars

\* a later call for a path with the other root: the id is the old one and its
\* root is still the first call's
C17_Witness ==
    /\ call.op = "get_or_insert"
    /\ ~call.inserted
    /\ call.root = "Lib"
    /\ get_root(path_map, call.file_id) = "Workspace"
    /\ path_map.next_id = 2

(***************************************************************************)
(* C18.  The two maps of a PathMap agree after any calls of get_or_insert: *)
(* get_path succeeds for every id that was issued and get_id takes its     *)
(* path back to the id; a path that get_id knows is the path get_path      *)
(* gives for its id; and id2root is defined on the issued ids and on no    *)
(* others.  Paths are compared as PathBuf compares them.                   *)
(***************************************************************************)
\* the ids new_file_id has handed out
Returned(m) == 0 .. m.next_id - 1

C18_MapsAgree ==
    /\ \A id \in Returned(path_map) :
          /\ get_path(path_map, id) # Panic
          /\ get_id(path_map, get_path(path_map, id)) = id
    /\ \A path \in Paths :
          get_id(path_map, path) # None =>
             /\ get_id(path_map, path) \in Returned(path_map)
             /\ components(get_path(path_map, get_id(path_map, path)))
                   = components(path)
    /\ DOMAIN path_map.id2root = Returned(path_map)
    /\ DOMAIN path_map.id2path = Returned(path_map)

\* three paths are in, under both roots, and get_id finds one of them under
\* another spelling than the one it was interned with
C18_Witness ==
    /\ path_map.next_id = MaxFiles
    /\ \A root \in Root : \E id \in Returned(path_map) :
          get_root(path_map, id) = root
    /\ \E id \in Returned(path_map) :
          /\ get_path(path_map, id) = << "/", "foo", ".", "bar.rs" >>
          /\ get_id(path_map, << "/", "foo", "bar.rs" >>) = id

(***************************************************************************)
(* C19.  Interning and reading back normalizes: the path a PathMap holds   *)
(* for the id that get_or_insert(p) returned is normalize(p), with "."     *)
(* left out and ".." applied, so two paths with the same normal form are   *)
(* interned under the same id.  Paths are compared as PathBuf compares     *)
(* them.                                                                   *)
(***************************************************************************)
C19_InternNormalizes ==
    /\ call.op = "get_or_insert" =>
          components(get_path(path_map, call.file_id))
             = components(normalize(call.path))
    /\ \A p, q \in Paths :
          /\ normalize(p) = normalize(q)
          /\ get_id(path_map, p) # None
          /\ get_id(path_map, q) # None
          => get_id(path_map, p) = get_id(path_map, q)

(***************************************************************************)
(* C20.  resolve(id, rel) joins the path held for id, taken as a           *)
(* directory, with rel, normalizes what it gets, and returns an id held    *)
(* for exactly that path, or none when no file has that path.  With foo    *)
(* and foo/bar.rs in the registry, resolving bar.rs against the id of foo  *)
(* gives the id of foo/bar.rs; ./bar.rs gives the same, and ../bar.rs      *)
(* gives the id of bar.rs.                                                 *)
(***************************************************************************)
\* the ids a FileMap holds for the path
FileIdsOf(fm, path) == { fm[i][1] : i \in { j \in 1..Len(fm) : fm[j][2] = path } }

\* what the claim's examples expect of resolving rel against foo
Expected(rel) ==
    CASE rel = << "bar.rs" >>       -> << "foo", "bar.rs" >>
      [] rel = << ".", "bar.rs" >>  -> << "foo", "bar.rs" >>
      [] rel = << "..", "bar.rs" >> -> << "bar.rs" >>
      [] rel = << "mod.rs" >>       -> << "foo", "mod.rs" >>

C20_ResolveJoinsAndNormalizes ==
    call.op = "resolve" =>
       LET base == FileMap_path(file_map, call.id)
           path == RelativePath_normalize(RelativePath_join(base, call.rel))
       IN  /\ IF FileIdsOf(file_map, path) = {}
              THEN call.result = None
              ELSE call.result \in FileIdsOf(file_map, path)
           /\ base = << "foo" >> =>
                 IF FileIdsOf(file_map, Expected(call.rel)) = {}
                 THEN call.result = None
                 ELSE call.result \in FileIdsOf(file_map, Expected(call.rel))

\* foo and foo/bar.rs were added, and bar.rs resolved against the id of foo
\* is the id of foo/bar.rs
C20_Witness ==
    /\ file_map = << << 1, << "foo" >> >>, << 2, << "foo", "bar.rs" >> >> >>
    /\ call = [op |-> "resolve", id |-> 1, rel |-> << "bar.rs" >>,
               result |-> 2]

(***************************************************************************)
(* C21.  In a File whose errors are sorted by owning node, iterating       *)
(* n.SyntaxErrors() ends without an access out of the bounds of the errors *)
(* arena and yields exactly the errors of n, each once, in arena order.    *)
(* That holds for the node that owns the last error of the arena too, and  *)
(* a node without errors yields nothing.                                   *)
(***************************************************************************)
\* the errors arena is sorted by owning node
ErrorsSorted ==
    \A i, j \in 0 .. Len(tree.errors) - 1 :
       i <= j => Idx(tree.errors, i).node <= Idx(tree.errors, j).node

\* the errors of the node
ErrorsOf(node) ==
    { i \in 0 .. Len(tree.errors) - 1 : Idx(tree.errors, i).node = node }

\* the sequence counts up through the set and leaves nothing of it out
Enumerates(seq, set) ==
    /\ { seq[i] : i \in 1..Len(seq) } = set
    /\ \A i, j \in 1..Len(seq) : i < j => seq[i] < seq[j]

C21_SyntaxErrorsOfNode ==
    iter.kind = "errors" /\ ErrorsSorted =>
       /\ iter.status # "panicked"
       /\ iter.status = "done" => Enumerates(iter.yielded, ErrorsOf(iter.node))
       /\ iter.status = "running" =>
             /\ { iter.yielded[i] : i \in 1..Len(iter.yielded) }
                   \subseteq ErrorsOf(iter.node)
             /\ ENABLED SyntaxErrors_next

(***************************************************************************)
(* C22.  Iterating n.children() starts at first_child, follows             *)
(* next_sibling, ends, and yields each child of n once, in sibling order.  *)
(* Every node it yields has n as parent and a range inside the range of    *)
(* n, and the ranges of consecutive siblings do not overlap and increase.  *)
(* The root is index 0 and has no parent.                                  *)
(***************************************************************************)
\* the nodes whose parent is the node
ChildrenOf(node) == { m \in NodeIdxs : Node_parent(tree, m) = node }

\* the first range lies inside the second
Within(inner, outer) == outer[1] <= inner[1] /\ inner[2] <= outer[2]

\* what the iterator has given out
Yielded == { iter.yielded[i] : i \in 1..Len(iter.yielded) }

C22_ChildrenOfNode ==
    /\ builder.sealed =>
          /\ File_root(tree) \in NodeIdxs
          /\ Node_parent(tree, File_root(tree)) = None
          /\ \A m \in NodeIdxs \ {File_root(tree)} :
                Node_parent(tree, m) \in NodeIdxs
    /\ iter.kind = "children" =>
          /\ iter.status \in {"running", "done"}
          /\ iter.status = "running" =>
                ENABLED Children_Iterator_next /\ iter.next \notin Yielded
          /\ iter.status = "done" => Yielded = ChildrenOf(iter.node)
          /\ Len(iter.yielded) = Cardinality(Yielded)
          /\ iter.yielded # << >> =>
                iter.yielded[1] = Idx(tree.nodes, iter.node).first_child
          /\ \A i \in 1..Len(iter.yielded) :
                /\ Node_parent(tree, iter.yielded[i]) = iter.node
                /\ Within(Node_range(tree, iter.yielded[i]),
                          Node_range(tree, iter.node))
          /\ \A i \in 1..Len(iter.yielded) - 1 :
                /\ iter.yielded[i + 1]
                      = Idx(tree.nodes, iter.yielded[i]).next_sibling
                /\ Node_range(tree, iter.yielded[i])[2]
                      <= Node_range(tree, iter.yielded[i + 1])[1]
                /\ Node_range(tree, iter.yielded[i])[1]
                      <= Node_range(tree, iter.yielded[i + 1])[1]

\* the children of the root were iterated to the end: two of them, the first
\* with a token of its own below it
C22_Witness ==
    /\ iter.kind = "children"
    /\ iter.status = "done"
    /\ iter.node = File_root(tree)
    /\ Len(iter.yielded) = 2
    /\ ChildrenOf(iter.yielded[1]) # {}
    /\ Node_range(tree, iter.yielded[1])[2] > Node_range(tree, iter.yielded[1])[1]

(***************************************************************************)
(* C23.  After any didOpen, didChange and didClose notifications the       *)
(* subscriptions are the files that have an overlay, that is, the files    *)
(* opened and not closed since.  An open adds the file, a change leaves    *)
(* the subscriptions as they are, a close removes the file; an open of a   *)
(* file that is open keeps its one subscription and replaces the text of   *)
(* the overlay.                                                            *)
(***************************************************************************)
\* the files that have an overlay
Overlaid(st) == { f \in WorkspaceFiles : st.vfs.overlay[f] # NoText }

C23_SubscriptionsAreOverlays ==
    /\ [](subs = Overlaid(state))
    /\ [][\A uri \in Uris \ {InvalidUri} :
            /\ ClientDidOpen(uri) =>
                  IF uri \in WorkspaceFiles
                  THEN /\ subs' = subs \cup {uri}
                       /\ state'.vfs.overlay[uri] = NewText
                  ELSE subs' = subs /\ Overlaid(state') = Overlaid(state)
            /\ (\E text \in {NewText} : ClientDidChange(uri, << text >>)) =>
                  /\ subs' = subs
                  /\ uri \in subs => state'.vfs.overlay[uri] = NewText
            /\ ClientDidClose(uri) =>
                  /\ subs' = subs \ {uri}
                  /\ Overlaid(state') = Overlaid(state) \ {uri}]_vars

\* the file was opened and then opened or changed again: it is subscribed
\* and its overlay holds the text of the second notification
C23_Witness ==
    /\ subs = WorkspaceFiles
    /\ client.sent = 2
    /\ \A f \in WorkspaceFiles : state.vfs.overlay[f] = 3

(***************************************************************************)
(* C24.  On every didClose with a valid uri the loop sends one             *)
(* publishDiagnostics notification for that uri, with no diagnostics in    *)
(* it, whether the file was open or not.  Closing a file that was never    *)
(* opened is no error and leaves the subscriptions as they are.            *)
(***************************************************************************)
\* what the step sent to the client
SentInStep == SubSeq(out', Len(out) + 1, Len(out'))

C24_CloseSendsEmptyDiagnostics ==
    [][\A uri \in Uris \ {InvalidUri} :
          ClientDidClose(uri) =>
             /\ Len(out') >= Len(out)
             /\ \E i \in 1..Len(SentInStep) :
                   /\ SentInStep[i]
                         = RawNotification("publishDiagnostics", uri, NoText)
                   /\ \A j \in 1..Len(SentInStep) :
                         SentInStep[j].method = "publishDiagnostics" => j = i
             /\ mainPc' = mainPc
             /\ main_res' = main_res
             /\ uri \notin subs => subs' = subs]_vars

\* the client's first message closed a file it had never opened: the empty
\* diagnostics went out and the loop is selecting again
C24_Witness ==
    /\ client.sent = 1
    /\ subs = {}
    /\ mainPc = "select"
    /\ main_res = "none"
    /\ \E f \in WorkspaceFiles :
          \E i \in 1..Len(out) :
             out[i] = RawNotification("publishDiagnostics", f, NoText)

(***************************************************************************)
(* C25.  After a filesystem event and after an open, change or close       *)
(* notification the loop first applies the pending changes and then takes  *)
(* a fresh snapshot, on which one closure computes the diagnostics of      *)
(* every file subscribed after the event.  A client request, a client      *)
(* response and a task (Respond or Notify) spawn no diagnostics closure.   *)
(* The notifications are those on_notification returns Ok for.             *)
(***************************************************************************)
\* how many diagnostics closures the pool holds
DiagCount(p) ==
    LET ds == { t \in BagToSet(p) : t.kind = "diag" }
    IN  BagCardinality([t \in ds |-> p[t]])

\* an event the claim counts as changing the state
StateChangingEvent ==
    \/ \E root \in Roots : VfsEvent(root)
    \/ \E uri \in Uris \ {InvalidUri} :
          \/ ClientDidOpen(uri)
          \/ ClientDidChange(uri, << NewText >>)
          \/ ClientDidClose(uri)

\* an event the claim counts as not changing the state
OtherEvent ==
    \/ \E r \in ClientRequests : ClientRequest(r[1], r[2])
    \/ OnRequestInsert
    \/ ClientResponse
    \/ TaskEvent

\* the step handed the pool one more diagnostics closure: for the
\* subscriptions after the step, on the world after the step
DiagSpawned ==
    LET d == DiagTask(snapshot(state'), subs')
    IN  /\ CopiesIn(d, pool') = CopiesIn(d, pool) + 1
        /\ DiagCount(pool') = DiagCount(pool) + 1

C25_DiagnosticsAfterStateChange ==
    /\ [][StateChangingEvent =>
             /\ DiagSpawned
             /\ state'.vfs.pending_changes = << >>
             /\ state'.host.version >= state.host.version
             /\ state.vfs.pending_changes # << >> =>
                   state'.host.version > state.host.version]_vars
    /\ [][OtherEvent => DiagCount(pool') = DiagCount(pool)]_vars

\* a diagnostics closure waits in the pool for the opened file, on the
\* current world, in which the file has the text of its overlay
C25_Witness ==
    \E t \in BagToSet(pool) :
        /\ t.kind = "diag"
        /\ t.todo = WorkspaceFiles
        /\ t.world = snapshot(state)
        /\ \A f \in WorkspaceFiles :
              /\ state.vfs.overlay[f] # NoText
              /\ SnapshotText(state, t.world, f) = state.vfs.overlay[f]

(***************************************************************************)
(* C26.  A library completion changes the state: in the iteration that     *)
(* installs the LibraryData in the world the loop takes a fresh snapshot   *)
(* and spawns the diagnostics of every subscribed file.                    *)
(***************************************************************************)
C26_LibraryCompletionSpawnsDiagnostics ==
    [][LibEvent =>
          /\ SnapshotLibs(state', snapshot(state')) # SnapshotLibs(state, snapshot(state))
          /\ DiagSpawned]_vars

(***************************************************************************)
(* C27.  A cancel notification does not change the state: whether its id   *)
(* is pending or not, handling it takes no fresh snapshot and spawns no    *)
(* diagnostics closure.                                                    *)
(***************************************************************************)
C27_CancelSpawnsNoDiagnostics ==
    [][\A id \in ReqIds :
          ClientCancel(id) =>
             /\ DiagCount(pool') = DiagCount(pool)
             /\ HeldWorlds(pool') \subseteq HeldWorlds(pool)]_vars

(***************************************************************************)
(* C28.  With no client request under an id that is pending, the assert    *)
(* in on_request that the id was newly inserted never fails; and the       *)
(* pending set never holds an id under which a response, a worker's result *)
(* or the error of a cancel, has been sent.                                *)
(***************************************************************************)
C28_InsertedIsNew ==
    /\ mainPc # "panicked"
    /\ mainPc = "insert" => res \notin pending_requests
    /\ \A id \in pending_requests : ResponsesFor(id) = {}

\* one request has been answered and is pending no more, another one has
\* been inserted and waits for its response
C28_Witness ==
    /\ mainPc = "select"
    /\ \E id \in ReqIds : ResponsesFor(id) # {} /\ id \notin pending_requests
    /\ \E id \in pending_requests : ResponsesFor(id) = {}

====
